---- MODULE Spec2Model ----
(***************************************************************************)
(* Admin control plane of the object-storage server: the peer registry     *)
(* (makeAdminPeers), the two fan-out operations over it (sendServiceCmd,   *)
(* listPeerLocksInfo) and the local lock state inspector (listLocksInfo).  *)
(*                                                                         *)
(* Go strings are modelled as sequences (<<>> is the empty string), Go      *)
(* slices as TLA+ sequences: Go index i is position i + 1, see At and Set. *)
(***************************************************************************)
EXTENDS Integers, Sequences, FiniteSets, TLC

\* ------------------------------------------------------------------ bounds
\* Number of distinct remote hosts of the cluster.
MaxRemotes == 3
\* Greatest number of remote peers of the clusters termination is checked on.
MaxLiveRemotes == 2
\* Longest endpoint list handed to makeAdminPeers.
MaxEps == 3
\* Largest value of the wall clock.
MaxTime == 2
\* Greatest number of upload IDs of one uploads.json.
MaxUploads == 2

\* ----------------------------------------------------------------- helpers
\* s[i] of a Go slice.
At(s, i) == s[i + 1]
\* s[i] = v of a Go slice.
Set(s, i, v) == [s EXCEPT ![i + 1] = v]
\* s[i:] of a Go slice.
SliceFrom(s, i) == SubSeq(s, i + 1, Len(s))
\* make([]T, n): n zero values.
Make(n, zero) == [k \in 1..n |-> zero]
\* All orders in which the elements of a finite set can be visited (the
\* iteration order of a Go map is not specified).
Orders(S) == {o \in [1..Cardinality(S) -> S] : \A a, b \in 1..Cardinality(S) : o[a] = o[b] => a = b}
\* strings.HasPrefix(s, prefix)
HasPrefix(s, prefix) == Len(prefix) <= Len(s) /\ SubSeq(s, 1, Len(prefix)) = prefix
RECURSIVE Concat(_)
\* The concatenation of a sequence of sequences.
Concat(ss) == IF ss = <<>> THEN <<>> ELSE Head(ss) \o Concat(Tail(ss))

\* ------------------------------------------------------------- the cluster
\* url.URL.Host of an endpoint that names no host (a local path).
EmptyHost == <<>>
\* The address of this server.
globalMinioAddr == <<0>>
RemoteHosts == {<<h>> : h \in 1..MaxRemotes}
Hosts == {EmptyHost, globalMinioAddr} \cup RemoteHosts
\* The endpoint lists makeAdminPeers is called with.
EpsLists == UNION {[1..n -> [Host : Hosts]] : n \in 0..MaxEps}

localAdminClient == <<"localAdminClient">>
remoteAdminClient(serverAddr) == <<"remoteAdminClient", serverAddr>>
adminPeer(addr, cmdRunner) == [addr |-> addr, cmdRunner |-> cmdRunner]

\* Mutant of seenAddrInit: the local address is not marked as seen.
seenAddrInitUnseeded == {}
\* seenAddr after the local peer was added: the addresses mapped to true.
seenAddrInit == {globalMinioAddr}

\* Mutant of hostIsEmpty: no endpoint is skipped.
hostIsEmptyNever(host) == FALSE
\* if ep.Host == "": the endpoint names no host.
hostIsEmpty(host) == host = EmptyHost

RECURSIVE makeAdminPeersLoop(_, _, _, _)
\* The loop over the endpoints, from endpoint i on.
makeAdminPeersLoop(epsL, i, servicePeers, seenAddr) ==
    IF i >= Len(epsL) THEN servicePeers
    ELSE LET ep == At(epsL, i) IN
         IF hostIsEmpty(ep.Host)
         THEN makeAdminPeersLoop(epsL, i + 1, servicePeers, seenAddr)
         ELSE IF ep.Host \notin seenAddr
         THEN makeAdminPeersLoop(epsL, i + 1,
                  Append(servicePeers, adminPeer(ep.Host, remoteAdminClient(ep.Host))),
                  seenAddr \cup {ep.Host})
         ELSE makeAdminPeersLoop(epsL, i + 1, servicePeers, seenAddr)

makeAdminPeers(epsL) ==
    makeAdminPeersLoop(epsL, 0, <<adminPeer(globalMinioAddr, localAdminClient)>>, seenAddrInit)

\* ---------------------------------------------------------- the lock table
Buckets == {"b", "c"}
\* The lockable resources, nsParam{volume, path}.
Params == {[volume |-> "b", path |-> <<"p", "q">>],
           [volume |-> "b", path |-> <<"r">>],
           [volume |-> "c", path |-> <<"p", "q">>]}
\* The operations that take locks; an operation ID is unique to one operation.
OpsIDs == {"op1", "op2"}
opLockSource(opsID) == IF opsID = "op1" THEN "GetObject" ELSE "PutObject"
opLockType(opsID) == IF opsID = "op1" THEN "RLock" ELSE "WLock"
\* The arguments listLocksInfo is called with.
Prefixes == {<<>>, <<"p">>, <<"r", "s">>}
RelTimes == 0..MaxTime

zeroCounters == [total |-> 0, granted |-> 0, blocked |-> 0]
\* The lock table of a server that holds no lock.
emptyLockTable == [debugLockMap |-> <<>>, counters |-> zeroCounters]

\* The operation IDs tracked anywhere in the table.
trackedOps(m) == UNION {DOMAIN m[p].lockInfo : p \in DOMAIN m}

\* Lock instrumentation: an operation starts to wait for the lock on param.
statusNoneToBlocked(t, param, opsID, clock) ==
    LET old == IF param \in DOMAIN t.debugLockMap
               THEN t.debugLockMap[param]
               ELSE [counters |-> zeroCounters, lockInfo |-> <<>>]
        info == [lockSource |-> opLockSource(opsID), lType |-> opLockType(opsID),
                 status |-> "Blocked", since |-> clock]
        new == [counters |-> [old.counters EXCEPT !.total = @ + 1, !.blocked = @ + 1],
                lockInfo |-> [o \in DOMAIN old.lockInfo \cup {opsID} |->
                                 IF o = opsID THEN info ELSE old.lockInfo[o]]]
    IN [debugLockMap |-> [p \in DOMAIN t.debugLockMap \cup {param} |->
                             IF p = param THEN new ELSE t.debugLockMap[p]],
        counters |-> [t.counters EXCEPT !.total = @ + 1, !.blocked = @ + 1]]

\* Lock instrumentation: a waiting operation is granted the lock.
statusBlockedToRunning(t, param, opsID, clock) ==
    [debugLockMap |-> [t.debugLockMap EXCEPT
                          ![param].counters.blocked = @ - 1,
                          ![param].counters.granted = @ + 1,
                          ![param].lockInfo[opsID].status = "Running",
                          ![param].lockInfo[opsID].since = clock],
     counters |-> [t.counters EXCEPT !.blocked = @ - 1, !.granted = @ + 1]]

\* Lock instrumentation: an operation unlocks or gives up; the entry of a
\* resource without operations is removed.
deleteLockInfoEntry(t, param, opsID) ==
    LET old == t.debugLockMap[param]
        running == old.lockInfo[opsID].status = "Running"
        dec(c) == [total |-> c.total - 1,
                   granted |-> IF running THEN c.granted - 1 ELSE c.granted,
                   blocked |-> IF running THEN c.blocked ELSE c.blocked - 1]
        new == [counters |-> dec(old.counters),
                lockInfo |-> [o \in DOMAIN old.lockInfo \ {opsID} |-> old.lockInfo[o]]]
        keep == IF DOMAIN new.lockInfo = {} THEN DOMAIN t.debugLockMap \ {param}
                ELSE DOMAIN t.debugLockMap
    IN [debugLockMap |-> [p \in keep |-> IF p = param THEN new ELSE t.debugLockMap[p]],
        counters |-> dec(t.counters)]

\* ------------------------------------------------- the lock state inspector
\* Mutant of listLocksInfoParamMatches: the prefix is not checked.
listLocksInfoParamMatchesNoPrefix(param, bucket, prefix) == param.volume = bucket
\* Whether the traversal keeps the table entry of param.
listLocksInfoParamMatches(param, bucket, prefix) ==
    ~(param.volume # bucket) /\ ~(~HasPrefix(param.path, prefix))

\* Mutant of listLocksInfoAgeMatches: a record exactly relTime old is dropped.
listLocksInfoAgeMatchesStrict(elapsed, relTime) == ~(elapsed <= relTime)
\* Whether the traversal keeps an operation record that is elapsed old.
listLocksInfoAgeMatches(elapsed, relTime) == ~(elapsed < relTime)

OpsLockState(opsID, lockInfo, elapsed) ==
    [OperationID |-> opsID, LockSource |-> lockInfo.lockSource, LockType |-> lockInfo.lType,
     Status |-> lockInfo.status, Since |-> lockInfo.since, Duration |-> elapsed]

\* Mutant of timeNowSub: the clock is read again for every record.
timeNowSubClock(timeNow, clock, since) == clock - since
\* timeNow.Sub(lockInfo.since), computed while the wall clock shows clock.
timeNowSub(timeNow, clock, since) == timeNow - since

RECURSIVE listLocksInfoOps(_, _, _, _, _, _, _, _)
\* The loop over the operation records of one table entry, visited in
\* opsOrder from position j on: volLockInfo keeps growing and a copy of it
\* is appended to volumeLocks for each record that is old enough.
\* clocks[opsID] is what the wall clock shows when the record is visited.
listLocksInfoOps(debugLock, opsOrder, j, volLockInfo, volumeLocks, relTime, timeNow, clocks) ==
    IF j > Len(opsOrder) THEN volumeLocks
    ELSE LET opsID == opsOrder[j]
             lockInfo == debugLock.lockInfo[opsID]
             elapsed == timeNowSub(timeNow, clocks[opsID], lockInfo.since)
         IN IF ~listLocksInfoAgeMatches(elapsed, relTime)
            THEN listLocksInfoOps(debugLock, opsOrder, j + 1, volLockInfo, volumeLocks,
                                  relTime, timeNow, clocks)
            ELSE LET grown == [volLockInfo EXCEPT !.LockDetailsOnObject =
                                   Append(@, OpsLockState(opsID, lockInfo, elapsed))]
                 IN listLocksInfoOps(debugLock, opsOrder, j + 1, grown,
                                     Append(volumeLocks, grown), relTime, timeNow, clocks)

RECURSIVE listLocksInfoLoop(_, _, _, _, _, _, _, _, _, _)
\* The loop over the table, visited in paramOrder from position i on.
listLocksInfoLoop(m, paramOrder, opsOrders, i, volumeLocks, bucket, prefix, relTime, timeNow, clocks) ==
    IF i > Len(paramOrder) THEN volumeLocks
    ELSE LET param == paramOrder[i]
             debugLock == m[param]
         IN IF ~listLocksInfoParamMatches(param, bucket, prefix)
            THEN listLocksInfoLoop(m, paramOrder, opsOrders, i + 1, volumeLocks,
                                   bucket, prefix, relTime, timeNow, clocks)
            ELSE LET volLockInfo == [Bucket |-> param.volume,
                                     Object |-> param.path,
                                     LocksOnObject |-> debugLock.counters.total,
                                     TotalBlockedLocks |-> debugLock.counters.blocked,
                                     LocksAcquiredOnObject |-> debugLock.counters.granted,
                                     LockDetailsOnObject |-> <<>>]
                 IN listLocksInfoLoop(m, paramOrder, opsOrders, i + 1,
                        listLocksInfoOps(debugLock, opsOrders[param], 1, volLockInfo,
                                         volumeLocks, relTime, timeNow, clocks),
                        bucket, prefix, relTime, timeNow, clocks)

\* The orders in which the operation records of each table entry can be visited.
OpsOrders(m) == {f \in [DOMAIN m -> UNION {Orders(DOMAIN m[p].lockInfo) : p \in DOMAIN m}] :
                    \A p \in DOMAIN m : f[p] \in Orders(DOMAIN m[p].lockInfo)}

\* The lists listLocksInfo can return on table m when its time sample is
\* timeNow and the wall clock shows clocks[opsID] as it visits a record.
listLocksInfoAt(m, bucket, prefix, relTime, timeNow, clocks) ==
    {listLocksInfoLoop(m, paramOrder, opsOrders, 1, <<>>, bucket, prefix, relTime, timeNow,
                       clocks) :
        paramOrder \in Orders(DOMAIN m), opsOrders \in OpsOrders(m)}

\* The lists listLocksInfo can return on table m when the clock shows timeNow
\* throughout the call.
listLocksInfo(m, bucket, prefix, relTime, timeNow) ==
    listLocksInfoAt(m, bucket, prefix, relTime, timeNow, [o \in OpsIDs |-> timeNow])

RECURSIVE getSystemLockStateOps(_, _, _, _, _, _)
\* The loop of getSystemLockState over the operation records of one table
\* entry: every record is appended to the details of volLockInfo.
getSystemLockStateOps(debugLock, opsOrder, j, volLockInfo, timeNow, clocks) ==
    IF j > Len(opsOrder) THEN volLockInfo
    ELSE LET opsID == opsOrder[j]
             lockInfo == debugLock.lockInfo[opsID]
         IN getSystemLockStateOps(debugLock, opsOrder, j + 1,
                [volLockInfo EXCEPT !.LockDetailsOnObject =
                    Append(@, OpsLockState(opsID, lockInfo,
                                           timeNowSub(timeNow, clocks[opsID], lockInfo.since)))],
                timeNow, clocks)

\* The VolumeLockInfo getSystemLockState builds for one table entry.
getSystemLockStateEntry(param, debugLock, opsOrder, timeNow, clocks) ==
    getSystemLockStateOps(debugLock, opsOrder, 1,
        [Bucket |-> param.volume,
         Object |-> param.path,
         LocksOnObject |-> debugLock.counters.total,
         TotalBlockedLocks |-> debugLock.counters.blocked,
         LocksAcquiredOnObject |-> debugLock.counters.granted,
         LockDetailsOnObject |-> <<>>],
        timeNow, clocks)

\* The states getSystemLockState can return on table t.
getSystemLockState(t, timeNow, clocks) ==
    {[TotalAcquiredLocks |-> t.counters.granted,
      TotalLocks |-> t.counters.total,
      TotalBlockedLocks |-> t.counters.blocked,
      LocksInfoPerObject |->
          [k \in 1..Len(paramOrder) |->
              getSystemLockStateEntry(paramOrder[k], t.debugLockMap[paramOrder[k]],
                                      opsOrders[paramOrder[k]], timeNow, clocks)]] :
        paramOrder \in Orders(DOMAIN t.debugLockMap), opsOrders \in OpsOrders(t.debugLockMap)}

\* The state returned before any table entry was visited.
NoLockState == [TotalAcquiredLocks |-> 0, TotalLocks |-> 0, TotalBlockedLocks |-> 0,
                LocksInfoPerObject |-> <<>>]

\* Mutant of tableAfterRead: reading the table counts as one more lock.
tableAfterReadCounted(t) == [t EXCEPT !.counters.total = @ + 1]
\* The lock table after getSystemLockState or listLocksInfo has read it.
tableAfterRead(t) == t

\* Mutant of lockMapMutexLock: the guard is taken whoever holds it.
lockMapMutexLockUnguarded(holder) == TRUE
\* Whether lockMapMutex.Lock() returns: the guard is free.
lockMapMutexLock(holder) == holder = "free"

\* A writer of the lock table has changed the entries and the total
\* counters towards the table new and not yet the granted and blocked ones.
halfWritten(old, new) ==
    LET oldCounters(p) == IF p \in DOMAIN old.debugLockMap
                          THEN old.debugLockMap[p].counters ELSE zeroCounters
    IN [debugLockMap |->
            [p \in DOMAIN new.debugLockMap |->
                [new.debugLockMap[p] EXCEPT !.counters.granted = oldCounters(p).granted,
                                            !.counters.blocked = oldCounters(p).blocked]],
        counters |-> [new.counters EXCEPT !.granted = old.counters.granted,
                                          !.blocked = old.counters.blocked]]

\* --------------------------------------------------------------- the fan-out
nil == "nil"
\* The errors a remote call can fail with.
Errors == {"E1", "E2"}
InsufficientReadQuorum == "InsufficientReadQuorum"
serviceStop == "serviceStop"
serviceRestart == "serviceRestart"
\* What a call on a peer returns: a list (nil on failure) and an error.
Outcome(locks, err) == [locks |-> locks, err |-> err]
\* No call on the peer has returned yet.
NoOutcome == Outcome(<<>>, "pending")

\* remotePeers := cps[1:]
remotePeersOf(cps) == SliceFrom(cps, 1)

\* Mutant of sendServiceCmdSlot: the shift by one position is forgotten.
sendServiceCmdSlotUnshifted(idx) == idx
\* The slot of errs the goroutine started with idx writes.
sendServiceCmdSlot(idx) == idx + 1

\* Mutant of listPeerLocksInfoIdx: the goroutine gets the index in remotePeers.
listPeerLocksInfoIdxUnshifted(i) == i
\* The idx the goroutine of the i-th remote peer is started with.
listPeerLocksInfoIdx(i) == i + 1

\* The RPC method the remote runner calls for a service command.
rpcMethod(cmd) == IF cmd = serviceStop THEN "Admin.Shutdown" ELSE "Admin.Restart"

\* The most frequent error value among the non-nil errors that are not
\* ignored, with its number of occurrences: <<0, nil>> when there is none,
\* any of the most frequent ones when several are.
reduceErrs(errsL, ignoredErrs) ==
    LET vals == {errsL[k] : k \in DOMAIN errsL} \ ({nil} \cup ignoredErrs)
        count(e) == Cardinality({k \in DOMAIN errsL : errsL[k] = e})
    IN IF vals = {} THEN {<<0, nil>>}
       ELSE {<<count(e), e>> : e \in {e \in vals : \A f \in vals : count(f) <= count(e)}}

\* Mutant of listPeerLocksInfoQuorum: one peer more than the majority is asked for.
listPeerLocksInfoQuorumTooHigh(n) == n \div 2 + 2
\* Mutant of listPeerLocksInfoQuorum: half of the peers are enough.
listPeerLocksInfoQuorumTooLow(n) == n \div 2
\* The number of agreeing peers that makes an error decisive.
listPeerLocksInfoQuorum(n) == n \div 2 + 1

\* The (bucket, object) pairs of the entries of all nodes.
paramsOf(allLocksL) ==
    LET flat == Concat(allLocksL)
    IN {[volume |-> flat[k].Bucket, path |-> flat[k].Object] : k \in DOMAIN flat}

\* Mutant of paramLockMap: one entry is kept for each (bucket, object) pair.
paramLockMapDeduplicated(allLocksL, param) ==
    LET flat == Concat(allLocksL)
        same(e) == e.Bucket = param.volume /\ e.Object = param.path
        first == CHOOSE k \in DOMAIN flat : same(flat[k]) /\ \A j \in 1..(k - 1) : ~same(flat[j])
    IN <<flat[first]>>
\* paramLockMap[param]: the entries of all nodes for one (bucket, object)
\* pair, node by node.
paramLockMap(allLocksL, param) ==
    LET same(e) == e.Bucket = param.volume /\ e.Object = param.path
    IN SelectSeq(Concat(allLocksL), same)

\* groupedLockInfos, the groups of paramLockMap visited in paramOrder.
groupedLockInfos(allLocksL, paramOrder) ==
    Concat([k \in 1..Len(paramOrder) |-> paramLockMap(allLocksL, paramOrder[k])])

\* Mutant of listPeerLocksInfoResult: errors short of the quorum are passed
\* over and the lists of the other peers are merged.
listPeerLocksInfoResultPartial(errCount, err, n, merged) ==
    IF err # nil /\ errCount >= listPeerLocksInfoQuorum(n)
    THEN Outcome(<<>>, err)
    ELSE Outcome(merged, nil)
\* What listPeerLocksInfo returns for the reduced error of n peers.
listPeerLocksInfoResult(errCount, err, n, merged) ==
    IF err # nil
    THEN IF errCount >= listPeerLocksInfoQuorum(n)
         THEN Outcome(<<>>, err)
         ELSE Outcome(<<>>, InsufficientReadQuorum)
    ELSE Outcome(merged, nil)

\* Lock tables a server can be in, built by the lock instrumentation.
tableTwoOps ==
    statusNoneToBlocked(
        statusNoneToBlocked(emptyLockTable, [volume |-> "b", path |-> <<"p", "q">>], "op1", 0),
        [volume |-> "b", path |-> <<"p", "q">>], "op2", 1)
tableOneOp == statusNoneToBlocked(emptyLockTable, [volume |-> "b", path |-> <<"r">>], "op1", 0)
SampleTables == {emptyLockTable, tableTwoOps, tableOneOp}
\* The queries listPeerLocksInfo is called with.
ListQueries == {[bucket |-> "b", prefix |-> <<>>, relTime |-> 0],
                [bucket |-> "b", prefix |-> <<"p">>, relTime |-> MaxTime]}
\* The lists a remote peer can answer a query with: what its own
\* listLocksInfo returns on its own table.
RemoteLists(q) ==
    UNION {listLocksInfo(t.debugLockMap, q.bucket, q.prefix, q.relTime, MaxTime) : t \in SampleTables}
\* The clusters the fan-out runs on.
ClusterEps == {[k \in 1..n |-> [Host |-> <<k>>]] : n \in 0..MaxRemotes}

\* -------------------------------------------------------- the uploads ledger
\* The upload IDs of the multipart uploads of one object.
UploadIDs == {"u1", "u2", "u3"}
ioEOF == "EOF"
errDiskIO == "errDiskIO"
\* uploads.json does not exist.
absentFile == [state |-> "absent", Uploads |-> <<>>]
\* uploads.json exists and has no content.
emptyFile == [state |-> "empty", Uploads |-> <<>>]
\* uploads.json holds the serialised list uploads.
jsonFile(uploads) == [state |-> "json", Uploads |-> uploads]
\* The upload IDs of a list of uploadInfo, in order.
idsOf(uploads) == [k \in DOMAIN uploads |-> uploads[k].UploadID]

\* uploadsV1.ReadFrom: the list read and the error; reading can fail, and
\* a file without content gives io.EOF.
uploadsV1ReadFrom(file) ==
    {[Uploads |-> <<>>, err |-> errDiskIO]} \cup
    (IF file.state = "json" THEN {[Uploads |-> file.Uploads, err |-> nil]}
     ELSE {[Uploads |-> <<>>, err |-> ioEOF]})
\* newUploadsV1("fs"): a list without uploads.
newUploadsV1 == <<>>
\* uploadsV1.AddUploadID
uploadsV1AddUploadID(uploads, uploadID, initiated) ==
    Append(uploads, [UploadID |-> uploadID, Initiated |-> initiated])
RECURSIVE uploadsV1RemoveUploadID(_, _)
\* uploadsV1.RemoveUploadID: the list without its first entry for uploadID.
uploadsV1RemoveUploadID(uploads, uploadID) ==
    IF uploads = <<>> THEN <<>>
    ELSE IF Head(uploads).UploadID = uploadID THEN Tail(uploads)
    ELSE <<Head(uploads)>> \o uploadsV1RemoveUploadID(Tail(uploads), uploadID)
\* uploadsV1.IsEmpty
uploadsV1IsEmpty(uploads) == Len(uploads) = 0
\* uploadsV1.WriteTo: the file and the error afterwards; a write that
\* fails leaves the old content or a file cut to no content.
uploadsV1WriteTo(file, uploads) ==
    {[file |-> jsonFile(uploads), err |-> nil],
     [file |-> file, err |-> errDiskIO],
     [file |-> emptyFile, err |-> errDiskIO]}
\* fsDeleteFile: the file and the error afterwards.
fsDeleteFile(file) ==
    {[file |-> absentFile, err |-> nil], [file |-> file, err |-> errDiskIO]}
\* errorCause: the errors of the model are not wrapped.
errorCause(err) == err

\* Mutant of removeUploadIDReadFailed: the error of ReadFrom is not looked at.
removeUploadIDReadIgnored(err) == FALSE
\* removeUploadID: if err != nil { return err }
removeUploadIDReadFailed(err) == err # nil

\* removeUploadID: the file afterwards and the error returned, with the
\* error of its ReadFrom.
removeUploadID(file, uploadID) ==
    UNION {IF removeUploadIDReadFailed(rd.err)
           THEN {[file |-> file, err |-> rd.err, readErr |-> rd.err]}
           ELSE LET uploadIDs == uploadsV1RemoveUploadID(rd.Uploads, uploadID) IN
                IF uploadsV1IsEmpty(uploadIDs)
                THEN {[file |-> d.file, err |-> d.err, readErr |-> rd.err] :
                          d \in fsDeleteFile(file)}
                ELSE {[file |-> w.file, err |-> w.err, readErr |-> rd.err] :
                          w \in uploadsV1WriteTo(file, uploadIDs)}
           : rd \in uploadsV1ReadFrom(file)}

\* addUploadID: the file afterwards and the error returned, with the error
\* of its ReadFrom.
addUploadID(file, uploadID, initiated) ==
    UNION {IF rd.err # nil /\ errorCause(rd.err) # ioEOF
           THEN {[file |-> file, err |-> rd.err, readErr |-> rd.err]}
           ELSE LET uploadIDs == IF errorCause(rd.err) = ioEOF THEN newUploadsV1
                                 ELSE rd.Uploads
                IN {[file |-> w.file, err |-> w.err, readErr |-> rd.err] :
                        w \in uploadsV1WriteTo(file,
                                  uploadsV1AddUploadID(uploadIDs, uploadID, initiated))}
           : rd \in uploadsV1ReadFrom(file)}

VARIABLES
    uploadsJSON,      \* the uploads.json of one object
    upCall,           \* the last call on uploads.json: arguments, file before, errors
    eps,              \* the endpoint list the server was started with
    globalAdminPeers, \* the registry, <<>> before initGlobalAdminPeers
    globalNSMutex,    \* the lock table: [debugLockMap, counters]
    lockMapMutex,     \* the holder of the guard of the lock table, or "free"
    now,              \* the wall clock
    pcInsp,           \* where the call of listLocksInfo stands
    query,            \* the arguments of the call of listLocksInfo
    timeNow,          \* the time sample of the call
    volumeLocks,      \* the list the call returns
    lockState,        \* the SystemLockState the call of getSystemLockState returns
    lastLockState,    \* the counters getSystemLockState returned last, if the table was not written since
    tableAtLock,      \* the lock table as it was when the reader took the guard
    pcWriter,         \* whether a writer of the lock table is in its critical section
    pendingTable,     \* the lock table that writer is about to leave
    call,             \* the fan-out operation that was called, with its arguments
    pcMain,           \* where the caller of the fan-out stands
    loopI,            \* the loop variable i of the loop that starts the goroutines
    wg,               \* the counter of the sync.WaitGroup
    goroutines,       \* the goroutines started, each with its arguments
    errs,             \* the error slots
    slotWriters,      \* for each slot, the units of execution that wrote it, in order
    localLocks,       \* what listLocksInfo returned to localAdminClient.ListLocks
    allLocks,         \* the result slots
    ret,              \* what listPeerLocksInfo returned
    invoked,          \* for each address, the calls made on its peer
    outcome,          \* for each address, what the call on its peer returned
    globalServiceSignalCh \* the signals the service loop has received

peerVars == <<eps, globalAdminPeers>>
tableVars == <<globalNSMutex, lockMapMutex, now, pcWriter, pendingTable>>
inspVars == <<pcInsp, query, timeNow, volumeLocks, lockState, lastLockState, tableAtLock>>
fanVars == <<call, pcMain, loopI, wg, goroutines, errs, slotWriters, localLocks, allLocks, ret,
             invoked, outcome, globalServiceSignalCh>>
upVars == <<uploadsJSON, upCall>>
vars == <<peerVars, tableVars, inspVars, fanVars, upVars>>

NoUpCall == [fn |-> "none", uploadID |-> "", before |-> absentFile, err |-> nil, readErr |-> nil]

InitUploads ==
    /\ uploadsJSON = absentFile
    /\ upCall = NoUpCall

NoCall == [fn |-> "none", cmd |-> "none", bucket |-> "", prefix |-> <<>>, relTime |-> 0]

InitFan ==
    /\ call = NoCall
    /\ pcMain = "idle"
    /\ loopI = 0
    /\ wg = 0
    /\ goroutines = <<>>
    /\ errs = <<>>
    /\ slotWriters = <<>>
    /\ localLocks = <<>>
    /\ allLocks = <<>>
    /\ ret = NoOutcome
    /\ invoked = [a \in Hosts |-> <<>>]
    /\ outcome = [a \in Hosts |-> NoOutcome]
    /\ globalServiceSignalCh = <<>>

NoQuery == [bucket |-> "", prefix |-> <<>>, relTime |-> 0]

\* The counters of a SystemLockState, the per object ones in no order.
countersOf(ls) ==
    [valid |-> TRUE,
     TotalLocks |-> ls.TotalLocks,
     TotalBlockedLocks |-> ls.TotalBlockedLocks,
     TotalAcquiredLocks |-> ls.TotalAcquiredLocks,
     perObject |-> {[Bucket |-> ls.LocksInfoPerObject[k].Bucket,
                     Object |-> ls.LocksInfoPerObject[k].Object,
                     LocksOnObject |-> ls.LocksInfoPerObject[k].LocksOnObject,
                     LocksAcquiredOnObject |-> ls.LocksInfoPerObject[k].LocksAcquiredOnObject,
                     TotalBlockedLocks |-> ls.LocksInfoPerObject[k].TotalBlockedLocks] :
                        k \in DOMAIN ls.LocksInfoPerObject}]
\* getSystemLockState has not returned since the table was written last.
NoCounters == [valid |-> FALSE, TotalLocks |-> 0, TotalBlockedLocks |-> 0,
               TotalAcquiredLocks |-> 0, perObject |-> {}]

InitWriter ==
    /\ pcWriter = "idle"
    /\ pendingTable = emptyLockTable

InitTable ==
    /\ globalNSMutex = emptyLockTable
    /\ lockMapMutex = "free"
    /\ now = 0
    /\ InitWriter

InitInsp ==
    /\ pcInsp = "idle"
    /\ query = NoQuery
    /\ timeNow = 0
    /\ volumeLocks = <<>>
    /\ lockState = NoLockState
    /\ lastLockState = NoCounters
    /\ tableAtLock = emptyLockTable

\* ---------------------------------------------------- the peer registry
InitPeers ==
    /\ eps \in EpsLists
    /\ globalAdminPeers = <<>>
    /\ InitTable
    /\ InitInsp
    /\ InitFan
    /\ InitUploads

initGlobalAdminPeers ==
    /\ globalAdminPeers = <<>>
    /\ globalAdminPeers' = makeAdminPeers(eps)
    /\ UNCHANGED <<upVars, eps, tableVars, inspVars, fanVars>>

NextPeers == initGlobalAdminPeers

SpecPeers == InitPeers /\ [][NextPeers]_vars

\* ------------------------------------------- the lock table and its readers
InitLocks ==
    /\ eps = <<>>
    /\ globalAdminPeers = makeAdminPeers(eps)
    /\ InitTable
    /\ InitInsp
    /\ InitFan
    /\ InitUploads

\* The clock advances.
Tick ==
    /\ now < MaxTime
    /\ now' = now + 1
    /\ UNCHANGED <<upVars, peerVars, globalNSMutex, lockMapMutex, pcWriter, pendingTable,
                   inspVars, fanVars>>

\* A writer of the lock table takes the guard and starts to write the table
\* new: the entries and the total counters first.
writerLock(new) ==
    /\ pcWriter = "idle"
    /\ lockMapMutexLock(lockMapMutex)
    /\ lockMapMutex' = "writer"
    /\ pcWriter' = "writing"
    /\ globalNSMutex' = halfWritten(globalNSMutex, new)
    /\ pendingTable' = new
    /\ lastLockState' = NoCounters
    /\ UNCHANGED <<upVars, peerVars, now, pcInsp, query, timeNow, volumeLocks, lockState,
                   tableAtLock, fanVars>>

\* An operation starts to wait for a lock.
LockBlocked ==
    \E param \in Params, opsID \in OpsIDs :
        /\ opsID \notin trackedOps(globalNSMutex.debugLockMap)
        /\ writerLock(statusNoneToBlocked(globalNSMutex, param, opsID, now))

\* A waiting operation is granted its lock.
LockGranted ==
    \E param \in DOMAIN globalNSMutex.debugLockMap :
        \E opsID \in DOMAIN globalNSMutex.debugLockMap[param].lockInfo :
            /\ globalNSMutex.debugLockMap[param].lockInfo[opsID].status = "Blocked"
            /\ writerLock(statusBlockedToRunning(globalNSMutex, param, opsID, now))

\* An operation unlocks, or gives up waiting.
LockReleased ==
    \E param \in DOMAIN globalNSMutex.debugLockMap :
        \E opsID \in DOMAIN globalNSMutex.debugLockMap[param].lockInfo :
            writerLock(deleteLockInfoEntry(globalNSMutex, param, opsID))

\* The writer brings the granted and blocked counters up to date and
\* releases the guard.
writerUnlock ==
    /\ pcWriter = "writing"
    /\ globalNSMutex' = pendingTable
    /\ pendingTable' = emptyLockTable
    /\ pcWriter' = "idle"
    /\ lockMapMutex' = "free"
    /\ UNCHANGED <<upVars, peerVars, now, inspVars, fanVars>>

\* The wall clock while a reader visits the records of the table: it ends
\* at some time end and shows clocks[opsID] when the record opsID is visited.
ClocksUntil(end) == [OpsIDs -> now..end]

\* listLocksInfo: globalNSMutex.lockMapMutex.Lock()
listLocksInfoLock ==
    /\ pcInsp = "idle"
    /\ lockMapMutexLock(lockMapMutex)
    /\ lockMapMutex' = "listLocksInfo"
    /\ tableAtLock' = globalNSMutex
    /\ pcInsp' = "locked"
    /\ UNCHANGED <<upVars, peerVars, globalNSMutex, now, pcWriter, pendingTable, query, timeNow,
                   volumeLocks, lockState, lastLockState, fanVars>>

\* listLocksInfo: the time sample and the traversal of the table.
listLocksInfoRead ==
    \E bucket \in Buckets, prefix \in Prefixes, relTime \in RelTimes, end \in now..MaxTime :
        \E clocks \in ClocksUntil(end) :
            /\ pcInsp = "locked"
            /\ query' = [bucket |-> bucket, prefix |-> prefix, relTime |-> relTime]
            /\ timeNow' = now
            /\ volumeLocks' \in listLocksInfoAt(globalNSMutex.debugLockMap, bucket, prefix,
                                                relTime, now, clocks)
            /\ globalNSMutex' = tableAfterRead(globalNSMutex)
            /\ now' = end
            /\ pcInsp' = "traversed"
            /\ UNCHANGED <<upVars, peerVars, lockMapMutex, pcWriter, pendingTable, lockState,
                           lastLockState, tableAtLock, fanVars>>

\* listLocksInfo: the deferred Unlock, and the return; the caller takes the
\* list and the frame of the call is gone.
listLocksInfoUnlock ==
    /\ pcInsp = "traversed"
    /\ lockMapMutex' = "free"
    /\ pcInsp' = "idle"
    /\ query' = NoQuery
    /\ timeNow' = 0
    /\ volumeLocks' = <<>>
    /\ tableAtLock' = emptyLockTable
    /\ UNCHANGED <<upVars, peerVars, globalNSMutex, now, pcWriter, pendingTable, lockState,
                   lastLockState, fanVars>>

\* getSystemLockState: globalNSMutex.lockMapMutex.Lock()
getSystemLockStateLock ==
    /\ pcInsp = "idle"
    /\ lockMapMutexLock(lockMapMutex)
    /\ lockMapMutex' = "getSystemLockState"
    /\ tableAtLock' = globalNSMutex
    /\ pcInsp' = "stateLocked"
    /\ UNCHANGED <<upVars, peerVars, globalNSMutex, now, pcWriter, pendingTable, query, timeNow,
                   volumeLocks, lockState, lastLockState, fanVars>>

\* getSystemLockState: the time sample, the counters and the traversal.
getSystemLockStateRead ==
    \E end \in now..MaxTime :
        \E clocks \in ClocksUntil(end) :
            /\ pcInsp = "stateLocked"
            /\ timeNow' = now
            /\ lockState' \in getSystemLockState(globalNSMutex, now, clocks)
            /\ globalNSMutex' = tableAfterRead(globalNSMutex)
            /\ now' = end
            /\ pcInsp' = "stateRead"
            /\ UNCHANGED <<upVars, peerVars, lockMapMutex, pcWriter, pendingTable, query,
                           volumeLocks, lastLockState, tableAtLock, fanVars>>

\* getSystemLockState: the deferred Unlock, and the return of lockState, nil.
getSystemLockStateUnlock ==
    /\ pcInsp = "stateRead"
    /\ lockMapMutex' = "free"
    /\ pcInsp' = "idle"
    /\ lastLockState' = countersOf(lockState)
    /\ lockState' = NoLockState
    /\ timeNow' = 0
    /\ tableAtLock' = emptyLockTable
    /\ UNCHANGED <<upVars, peerVars, globalNSMutex, now, pcWriter, pendingTable, query,
                   volumeLocks, fanVars>>

NextLocks ==
    \/ Tick
    \/ LockBlocked
    \/ LockGranted
    \/ LockReleased
    \/ writerUnlock
    \/ listLocksInfoLock
    \/ listLocksInfoRead
    \/ listLocksInfoUnlock
    \/ getSystemLockStateLock
    \/ getSystemLockStateRead
    \/ getSystemLockStateUnlock

SpecLocks == InitLocks /\ [][NextLocks]_vars

\* ------------------------------------------------- the fan-out operations
\* The argument cps / peers of the fan-out: the registry of the server.
cps == globalAdminPeers
\* A goroutine, with the arguments it was started with.
Goroutine(idx, remotePeer) == [idx |-> idx, remotePeer |-> remotePeer, pc |-> "ready"]
\* The goroutines of sendServiceCmd take no peer as argument.
NoPeer == adminPeer(EmptyHost, <<>>)

InitFanout ==
    /\ eps \in ClusterEps
    /\ globalAdminPeers = makeAdminPeers(eps)
    /\ globalNSMutex \in SampleTables
    /\ lockMapMutex = "free"
    /\ now = MaxTime
    /\ InitWriter
    /\ InitInsp
    /\ InitFan
    /\ InitUploads

\* Mutant of wgWait: Wait returns whatever the counter is.
wgWaitNoBarrier(counter) == TRUE
\* wg.Wait() can return: the counter of the WaitGroup is zero.
wgWait(counter) == counter = 0
\* Mutant of wgDone: the goroutine ends without Done.
wgDoneLost(counter) == counter
\* defer wg.Done() of a goroutine.
wgDone(counter) == counter - 1
\* The caller of the fan-out as a unit of execution; goroutine g is unit g.
mainUnit == 0
\* The slots after unit has written slot i.
written(slots, i, unit) == Set(slots, i, Append(At(slots, i), unit))
\* Mutant of localAdminClientListLocks: the local call fails.
localAdminClientListLocksFails(locks) == Outcome(<<>>, "E1")
\* localAdminClient.ListLocks: return listLocksInfo(bucket, prefix, relTime), nil
localAdminClientListLocks(locks) == Outcome(locks, nil)

\* Mutant of sendServiceCmdAfterWait: a failed remote peer ends the broadcast.
sendServiceCmdAfterWaitStopOnError(errsL) ==
    IF \E k \in DOMAIN errsL : errsL[k] # nil THEN "done" ELSE "local"
\* Where sendServiceCmd goes on after wg.Wait(): the error slots are not read.
sendServiceCmdAfterWait(errsL) == "local"

\* sendServiceCmd is called: errs := make([]error, len(cps))
sendServiceCmdCall ==
    \E cmd \in {serviceStop, serviceRestart} :
        /\ pcMain = "idle"
        /\ call' = [NoCall EXCEPT !.fn = "sendServiceCmd", !.cmd = cmd]
        /\ errs' = Make(Len(cps), nil)
        /\ slotWriters' = Make(Len(cps), <<>>)
        /\ pcMain' = "spawn"
        /\ UNCHANGED <<upVars, peerVars, localLocks, tableVars, inspVars, loopI, wg, goroutines,
                       allLocks, ret, invoked, outcome, globalServiceSignalCh>>

\* One round of the loop: wg.Add(1); go func(idx int) {...}(i)
sendServiceCmdGo ==
    /\ call.fn = "sendServiceCmd"
    /\ pcMain = "spawn"
    /\ loopI < Len(remotePeersOf(cps))
    /\ wg' = wg + 1
    /\ goroutines' = Append(goroutines, Goroutine(loopI, NoPeer))
    /\ loopI' = loopI + 1
    /\ UNCHANGED <<upVars, peerVars, localLocks, tableVars, inspVars, call, pcMain, errs,
                   slotWriters, allLocks, ret, invoked, outcome, globalServiceSignalCh>>

\* A goroutine sends the command to remotePeers[idx].
sendServiceCmdInvoke ==
    \E g \in DOMAIN goroutines :
        LET peer == At(remotePeersOf(cps), goroutines[g].idx) IN
        /\ call.fn = "sendServiceCmd"
        /\ goroutines[g].pc = "ready"
        /\ peer.cmdRunner = remoteAdminClient(peer.addr)
        /\ invoked' = [invoked EXCEPT ![peer.addr] = Append(@, rpcMethod(call.cmd))]
        /\ goroutines' = [goroutines EXCEPT ![g].pc = "inFlight"]
        /\ UNCHANGED <<upVars, peerVars, localLocks, tableVars, inspVars, call, pcMain, loopI,
                       wg, errs, slotWriters, allLocks, ret, outcome, globalServiceSignalCh>>

\* The RPC returns; the goroutine stores the error and ends: wg.Done().
sendServiceCmdReturn ==
    \E g \in DOMAIN goroutines, err \in {nil} \cup Errors :
        LET peer == At(remotePeersOf(cps), goroutines[g].idx) IN
        /\ call.fn = "sendServiceCmd"
        /\ goroutines[g].pc = "inFlight"
        /\ outcome' = [outcome EXCEPT ![peer.addr] = Outcome(<<>>, err)]
        /\ errs' = Set(errs, sendServiceCmdSlot(goroutines[g].idx), err)
        /\ slotWriters' = written(slotWriters, sendServiceCmdSlot(goroutines[g].idx), g)
        /\ wg' = wgDone(wg)
        /\ goroutines' = [goroutines EXCEPT ![g].pc = "done"]
        /\ UNCHANGED <<upVars, peerVars, localLocks, tableVars, inspVars, call, pcMain, loopI,
                       allLocks, ret, invoked, globalServiceSignalCh>>

\* wg.Wait() returns.
sendServiceCmdWait ==
    /\ call.fn = "sendServiceCmd"
    /\ pcMain = "spawn"
    /\ loopI >= Len(remotePeersOf(cps))
    /\ wgWait(wg)
    /\ pcMain' = sendServiceCmdAfterWait(errs)
    /\ UNCHANGED <<upVars, peerVars, localLocks, tableVars, inspVars, call, loopI, wg,
                   goroutines, errs, slotWriters, allLocks, ret, invoked, outcome,
                   globalServiceSignalCh>>

\* errs[0] = invokeServiceCmd(cps[0], cmd): the local runner posts the
\* signal, the service loop receives it, and the call returns nil.
sendServiceCmdLocal ==
    LET peer == At(cps, 0) IN
    /\ call.fn = "sendServiceCmd"
    /\ pcMain = "local"
    /\ peer.cmdRunner = localAdminClient
    /\ globalServiceSignalCh' = Append(globalServiceSignalCh, call.cmd)
    /\ invoked' = [invoked EXCEPT ![peer.addr] = Append(@, call.cmd)]
    /\ outcome' = [outcome EXCEPT ![peer.addr] = Outcome(<<>>, nil)]
    /\ errs' = Set(errs, 0, nil)
    /\ slotWriters' = written(slotWriters, 0, mainUnit)
    /\ pcMain' = "done"
    /\ UNCHANGED <<upVars, peerVars, localLocks, tableVars, inspVars, call, loopI, wg,
                   goroutines, allLocks, ret>>

\* listPeerLocksInfo is called: the two slices are made.
listPeerLocksInfoCall ==
    \E q \in ListQueries :
        /\ pcMain = "idle"
        /\ call' = [NoCall EXCEPT !.fn = "listPeerLocksInfo", !.bucket = q.bucket,
                                  !.prefix = q.prefix, !.relTime = q.relTime]
        /\ allLocks' = Make(Len(cps), <<>>)
        /\ errs' = Make(Len(cps), nil)
        /\ slotWriters' = Make(Len(cps), <<>>)
        /\ pcMain' = "spawn"
        /\ UNCHANGED <<upVars, peerVars, localLocks, tableVars, inspVars, loopI, wg, goroutines,
                       ret, invoked, outcome, globalServiceSignalCh>>

\* One round of the loop: wg.Add(1); go func(idx, remotePeer) {...}(i+1, remotePeer)
listPeerLocksInfoGo ==
    /\ call.fn = "listPeerLocksInfo"
    /\ pcMain = "spawn"
    /\ loopI < Len(remotePeersOf(cps))
    /\ wg' = wg + 1
    /\ goroutines' = Append(goroutines,
                        Goroutine(listPeerLocksInfoIdx(loopI), At(remotePeersOf(cps), loopI)))
    /\ loopI' = loopI + 1
    /\ UNCHANGED <<upVars, peerVars, localLocks, tableVars, inspVars, call, pcMain, errs,
                   slotWriters, allLocks, ret, invoked, outcome, globalServiceSignalCh>>

\* A goroutine sends the query to its remotePeer.
listPeerLocksInfoInvoke ==
    \E g \in DOMAIN goroutines :
        LET peer == goroutines[g].remotePeer IN
        /\ call.fn = "listPeerLocksInfo"
        /\ goroutines[g].pc = "ready"
        /\ peer.cmdRunner = remoteAdminClient(peer.addr)
        /\ invoked' = [invoked EXCEPT ![peer.addr] = Append(@, "Admin.ListLocks")]
        /\ goroutines' = [goroutines EXCEPT ![g].pc = "inFlight"]
        /\ UNCHANGED <<upVars, peerVars, localLocks, tableVars, inspVars, call, pcMain, loopI,
                       wg, errs, slotWriters, allLocks, ret, outcome, globalServiceSignalCh>>

\* What remoteAdminClient.ListLocks can return: nil and the error of the
\* call, or the list of the reply and nil.
remoteListLocks(q) ==
    {Outcome(<<>>, err) : err \in Errors} \cup {Outcome(volLocks, nil) : volLocks \in RemoteLists(q)}

\* The RPC returns; the goroutine stores list and error and ends: wg.Done().
listPeerLocksInfoReturn ==
    \E g \in DOMAIN goroutines :
        \E o \in remoteListLocks(call) :
            /\ call.fn = "listPeerLocksInfo"
            /\ goroutines[g].pc = "inFlight"
            /\ outcome' = [outcome EXCEPT ![goroutines[g].remotePeer.addr] = o]
            /\ allLocks' = Set(allLocks, goroutines[g].idx, o.locks)
            /\ errs' = Set(errs, goroutines[g].idx, o.err)
            /\ slotWriters' = written(slotWriters, goroutines[g].idx, g)
            /\ wg' = wgDone(wg)
            /\ goroutines' = [goroutines EXCEPT ![g].pc = "done"]
            /\ UNCHANGED <<upVars, peerVars, localLocks, tableVars, inspVars, call, pcMain,
                           loopI, ret, invoked, globalServiceSignalCh>>

\* wg.Wait() returns.
listPeerLocksInfoWait ==
    /\ call.fn = "listPeerLocksInfo"
    /\ pcMain = "spawn"
    /\ loopI >= Len(remotePeersOf(cps))
    /\ wgWait(wg)
    /\ pcMain' = "local"
    /\ UNCHANGED <<upVars, peerVars, localLocks, tableVars, inspVars, call, loopI, wg,
                   goroutines, errs, slotWriters, allLocks, ret, invoked, outcome,
                   globalServiceSignalCh>>

\* allLocks[0], errs[0] = localPeer.cmdRunner.ListLocks(...): the local
\* runner returns listLocksInfo(...) and nil.
listPeerLocksInfoLocal ==
    LET localPeer == At(cps, 0) IN
    \E locks \in listLocksInfo(globalNSMutex.debugLockMap, call.bucket, call.prefix,
                               call.relTime, now) :
        /\ call.fn = "listPeerLocksInfo"
        /\ pcMain = "local"
        /\ localPeer.cmdRunner = localAdminClient
        /\ lockMapMutexLock(lockMapMutex)
        /\ invoked' = [invoked EXCEPT ![localPeer.addr] = Append(@, "listLocksInfo")]
        /\ localLocks' = locks
        /\ outcome' = [outcome EXCEPT ![localPeer.addr] = localAdminClientListLocks(locks)]
        /\ allLocks' = Set(allLocks, 0, localAdminClientListLocks(locks).locks)
        /\ errs' = Set(errs, 0, localAdminClientListLocks(locks).err)
        /\ slotWriters' = written(slotWriters, 0, mainUnit)
        /\ pcMain' = "reduce"
        /\ UNCHANGED <<upVars, peerVars, tableVars, inspVars, call, loopI, wg, goroutines, ret,
                       globalServiceSignalCh>>

\* The errors are reduced and the call returns: an error, or the groups of
\* paramLockMap one after the other.
listPeerLocksInfoReduce ==
    \E r \in reduceErrs(errs, {}), paramOrder \in Orders(paramsOf(allLocks)) :
        /\ call.fn = "listPeerLocksInfo"
        /\ pcMain = "reduce"
        /\ ret' = listPeerLocksInfoResult(r[1], r[2], Len(cps),
                                          groupedLockInfos(allLocks, paramOrder))
        /\ pcMain' = "done"
        /\ UNCHANGED <<upVars, peerVars, localLocks, tableVars, inspVars, call, loopI, wg,
                       goroutines, errs, slotWriters, allLocks, invoked, outcome,
                       globalServiceSignalCh>>

Next ==
    \/ sendServiceCmdCall
    \/ sendServiceCmdGo
    \/ sendServiceCmdInvoke
    \/ sendServiceCmdReturn
    \/ sendServiceCmdWait
    \/ sendServiceCmdLocal
    \/ listPeerLocksInfoCall
    \/ listPeerLocksInfoGo
    \/ listPeerLocksInfoInvoke
    \/ listPeerLocksInfoReturn
    \/ listPeerLocksInfoWait
    \/ listPeerLocksInfoLocal
    \/ listPeerLocksInfoReduce

Spec == InitFanout /\ [][Next]_vars

\* The steps of a fan-out operation that was called.
Progress ==
    \/ sendServiceCmdGo \/ sendServiceCmdInvoke \/ sendServiceCmdReturn
    \/ sendServiceCmdWait \/ sendServiceCmdLocal
    \/ listPeerLocksInfoGo \/ listPeerLocksInfoInvoke \/ listPeerLocksInfoReturn
    \/ listPeerLocksInfoWait \/ listPeerLocksInfoLocal \/ listPeerLocksInfoReduce

\* The fan-out under fair scheduling, with remote calls that return and a
\* local step that completes: while the caller or a goroutine can take a
\* step, one of them eventually does. Every scheduler that is fair to each
\* goroutine satisfies this. That an operation is called is not required.
Fairness == WF_vars(Progress)

\* The clusters termination is checked on have at most MaxLiveRemotes remote peers.
InitLive == InitFanout /\ Len(eps) <= MaxLiveRemotes

SpecLive == InitLive /\ [][Next]_vars /\ Fairness

\* ------------------------------------------------ the uploads ledger in use
InitLedger ==
    /\ eps = <<>>
    /\ globalAdminPeers = makeAdminPeers(eps)
    /\ InitTable
    /\ InitInsp
    /\ InitFan
    /\ InitUploads

\* The caller opens uploads.json for writing under its lock and creates
\* it if it does not exist.
createUploadsJSON ==
    /\ uploadsJSON = absentFile
    /\ uploadsJSON' = emptyFile
    /\ upCall' = NoUpCall
    /\ UNCHANGED <<peerVars, tableVars, inspVars, fanVars>>

\* A call of addUploadID with a new upload ID on the locked file.
addUploadIDCall ==
    \E uploadID \in UploadIDs :
        \E res \in addUploadID(uploadsJSON, uploadID, now) :
            /\ uploadsJSON.state # "absent"
            /\ Len(uploadsJSON.Uploads) < MaxUploads
            /\ \A k \in DOMAIN uploadsJSON.Uploads : uploadsJSON.Uploads[k].UploadID # uploadID
            /\ uploadsJSON' = res.file
            /\ upCall' = [fn |-> "addUploadID", uploadID |-> uploadID, before |-> uploadsJSON,
                          err |-> res.err, readErr |-> res.readErr]
            /\ UNCHANGED <<peerVars, tableVars, inspVars, fanVars>>

\* A call of removeUploadID on the locked file.
removeUploadIDCall ==
    \E uploadID \in UploadIDs :
        \E res \in removeUploadID(uploadsJSON, uploadID) :
            /\ uploadsJSON.state # "absent"
            /\ uploadsJSON' = res.file
            /\ upCall' = [fn |-> "removeUploadID", uploadID |-> uploadID, before |-> uploadsJSON,
                          err |-> res.err, readErr |-> res.readErr]
            /\ UNCHANGED <<peerVars, tableVars, inspVars, fanVars>>

NextUploads ==
    \/ createUploadsJSON
    \/ addUploadIDCall
    \/ removeUploadIDCall

SpecUploads == InitLedger /\ [][NextUploads]_vars

\* ------------------------------------------------------------ properties
\* The number of occurrences of e in the sequence s.
Count(e, s) == Cardinality({k \in DOMAIN s : s[k] = e})
\* The elements of the sequence s.
Elems(s) == {s[k] : k \in DOMAIN s}
\* The registry positions, as Go indices.
PeerIdx == 0..(Len(cps) - 1)
\* What the call made on the peer at registry position i returned.
PeerOutcome(i) == outcome[At(cps, i).addr]
\* The peers whose call returned the error e.
PeersWith(e) == {i \in PeerIdx : PeerOutcome(i).err = e}
\* The number of peers that makes a majority of the registry.
MajorityOfPeers == (Len(cps) \div 2) + 1
\* The lists of all peers, one after the other.
AllPeerLists == Concat([k \in 1..Len(cps) |-> PeerOutcome(k - 1).locks])
ListDone == call.fn = "listPeerLocksInfo" /\ pcMain = "done"
CmdDone == call.fn = "sendServiceCmd" /\ pcMain = "done"

\* C1: when at least floor(N/2)+1 peers returned the same error E from
\* ListLocks, listPeerLocksInfo returns E and no list, whatever the other
\* peers returned.
C1_MajorityErrorIsReturned ==
    ListDone =>
        \A e \in Errors :
            Cardinality(PeersWith(e)) >= MajorityOfPeers => ret = Outcome(<<>>, e)

\* C1 witness: in a registry of three peers both remote peers failed with
\* the same error, the local peer succeeded, and the error was returned.
C1_Witness ==
    /\ ListDone
    /\ Len(cps) = 3
    /\ \E e \in Errors : Cardinality(PeersWith(e)) = 2 /\ ret.err = e
    /\ PeerOutcome(0).err = nil

\* C2: when some peer returned an error but no error value was returned by
\* floor(N/2)+1 peers, listPeerLocksInfo fails with InsufficientReadQuorum:
\* it returns no peer's error and no list.
C2_MinorityErrorIsInsufficientQuorum ==
    ListDone =>
        ((/\ \E i \in PeerIdx : PeerOutcome(i).err # nil
          /\ \A e \in Errors : Cardinality(PeersWith(e)) < MajorityOfPeers)
         => ret = Outcome(<<>>, InsufficientReadQuorum))

\* C2 witness: three peers, exactly one of them failed, the two others
\* returned entries, and the call failed with InsufficientReadQuorum.
C2_Witness ==
    /\ ListDone
    /\ Len(cps) = 3
    /\ Cardinality({i \in PeerIdx : PeerOutcome(i).err # nil}) = 1
    /\ \E i \in PeerIdx : PeerOutcome(i).locks # <<>>
    /\ ret.err = InsufficientReadQuorum

\* C3: listPeerLocksInfo returns no partial list: when it returns a nil
\* error every peer returned without error and every entry of every peer is
\* in the list; when a peer failed the call fails with an error of a peer
\* or with InsufficientReadQuorum, and returns no list.
C3_NeverPartial ==
    ListDone =>
        /\ ret.err = nil =>
              /\ \A i \in PeerIdx : PeerOutcome(i).err = nil
              /\ \A i \in PeerIdx : Elems(PeerOutcome(i).locks) \subseteq Elems(ret.locks)
        /\ (\E i \in PeerIdx : PeerOutcome(i).err # nil) =>
              /\ ret.err \in Errors \cup {InsufficientReadQuorum}
              /\ ret.locks = <<>>

\* C3 witness: a nil error was returned for a registry of several peers of
\* which two returned entries.
C3_Witness ==
    /\ ListDone
    /\ ret.err = nil
    /\ Cardinality({i \in PeerIdx : PeerOutcome(i).locks # <<>>}) >= 2

\* C4: when no peer failed, the returned list is, as a multiset, the
\* concatenation of the lists of all peers: nothing dropped, merged,
\* changed or added.
C4_MergeIsConcatenation ==
    (ListDone /\ \A i \in PeerIdx : PeerOutcome(i).err = nil) =>
        /\ ret.err = nil
        /\ Len(ret.locks) = Len(AllPeerLists)
        /\ \A e \in Elems(ret.locks) \cup Elems(AllPeerLists) :
               Count(e, ret.locks) = Count(e, AllPeerLists)

\* C4 witness: no peer failed, two peers returned an entry for the same
\* (bucket, object), one of these entries was returned by both, and the
\* list holds it twice.
C4_Witness ==
    /\ ListDone
    /\ \A i \in PeerIdx : PeerOutcome(i).err = nil
    /\ \E i, j \in PeerIdx :
           /\ i # j
           /\ \E e \in Elems(PeerOutcome(i).locks) :
                  /\ e \in Elems(PeerOutcome(j).locks)
                  /\ Count(e, ret.locks) >= 2
           /\ \E e \in Elems(PeerOutcome(i).locks), f \in Elems(PeerOutcome(j).locks) :
                  e # f /\ e.Bucket = f.Bucket /\ e.Object = f.Object

\* The hosts the endpoint list names.
NamedHosts == {eps[k].Host : k \in DOMAIN eps} \ {EmptyHost}

\* C5: for every endpoint list makeAdminPeers returns a registry that is not
\* empty, whose first peer is the local address with the local runner, in
\* which the local address and every host the list names is the address of
\* exactly one peer, and whose other peers are remote runners of addresses
\* other than the local one.
C5_RegistryLocalFirstNoDuplicates ==
    globalAdminPeers # <<>> =>
        /\ Len(globalAdminPeers) >= 1
        /\ At(globalAdminPeers, 0) = adminPeer(globalMinioAddr, localAdminClient)
        /\ \A h \in NamedHosts \cup {globalMinioAddr} :
               Cardinality({k \in DOMAIN globalAdminPeers : globalAdminPeers[k].addr = h}) = 1
        /\ \A i \in 1..(Len(globalAdminPeers) - 1) :
               /\ At(globalAdminPeers, i).addr # globalMinioAddr
               /\ At(globalAdminPeers, i).cmdRunner = remoteAdminClient(At(globalAdminPeers, i).addr)

\* C5 witness: the registry was built from a list that names a remote host
\* twice and also names the local address.
C5_Witness ==
    /\ globalAdminPeers # <<>>
    /\ \E j, k \in DOMAIN eps : j < k /\ eps[j].Host = eps[k].Host /\ eps[j].Host \in RemoteHosts
    /\ \E k \in DOMAIN eps : eps[k].Host = globalMinioAddr
    /\ Len(globalAdminPeers) = 2

\* The table the call of listLocksInfo read: it holds the guard.
lockedMap == globalNSMutex.debugLockMap
\* The operation records of the table that pass the three filters of the call.
MatchingRecords ==
    {po \in Params \X OpsIDs :
        /\ po[1] \in DOMAIN lockedMap
        /\ po[2] \in DOMAIN lockedMap[po[1]].lockInfo
        /\ po[1].volume = query.bucket
        /\ HasPrefix(po[1].path, query.prefix)
        /\ timeNow - lockedMap[po[1]].lockInfo[po[2]].since >= query.relTime}
\* The table entry a returned entry is about.
ParamOf(e) == [volume |-> e.Bucket, path |-> e.Object]
\* The operation records a returned entry reports.
ReportedBy(e) == {<<ParamOf(e), e.LockDetailsOnObject[j].OperationID>> : j \in DOMAIN e.LockDetailsOnObject}

\* C6: listLocksInfo is sound and complete: every returned entry is about a
\* tracked (bucket, path) of the requested bucket whose path starts with the
\* prefix and reports records that are at least minAge old at the time
\* sample; every tracked record that meets the three conditions is reported.
C6_ListLocksInfoSoundAndComplete ==
    pcInsp = "traversed" =>
        /\ \A k \in DOMAIN volumeLocks :
               /\ ParamOf(volumeLocks[k]) \in DOMAIN lockedMap
               /\ volumeLocks[k].Bucket = query.bucket
               /\ HasPrefix(volumeLocks[k].Object, query.prefix)
               /\ volumeLocks[k].LockDetailsOnObject # <<>>
               /\ ReportedBy(volumeLocks[k]) \subseteq MatchingRecords
               /\ \A j \in DOMAIN volumeLocks[k].LockDetailsOnObject :
                      LET d == volumeLocks[k].LockDetailsOnObject[j] IN
                      /\ d.Since = lockedMap[ParamOf(volumeLocks[k])].lockInfo[d.OperationID].since
                      /\ d.Duration = timeNow - d.Since
                      /\ d.Duration >= query.relTime
        /\ \A po \in MatchingRecords : \E k \in DOMAIN volumeLocks : po \in ReportedBy(volumeLocks[k])

\* C6 witness: a call with a prefix and a minAge above zero returned a
\* record exactly minAge old, while the table holds a younger record of the
\* same bucket and prefix.
C6_Witness ==
    /\ pcInsp = "traversed"
    /\ query.prefix # <<>>
    /\ query.relTime > 0
    /\ \E k \in DOMAIN volumeLocks : volumeLocks[k].LockDetailsOnObject[1].Duration = query.relTime
    /\ \E p \in DOMAIN lockedMap : \E o \in DOMAIN lockedMap[p].lockInfo :
           /\ p.volume = query.bucket
           /\ HasPrefix(p.path, query.prefix)
           /\ timeNow - lockedMap[p].lockInfo[o].since < query.relTime

\* C7: the returned list has one entry for each operation record that
\* passes the bucket, prefix and minAge filters, and an object none of
\* whose records is old enough has no entry.
C7_OneEntryPerMatchingRecord ==
    pcInsp = "traversed" =>
        /\ Len(volumeLocks) = Cardinality(MatchingRecords)
        /\ \A p \in DOMAIN lockedMap :
               (\A o \in DOMAIN lockedMap[p].lockInfo : <<p, o>> \notin MatchingRecords)
                   => \A k \in DOMAIN volumeLocks : ParamOf(volumeLocks[k]) # p

\* C7 witness: an object of the requested bucket and prefix has two records
\* that are old enough and the list has two entries for it.
C7_Witness ==
    /\ pcInsp = "traversed"
    /\ Len(volumeLocks) = 2
    /\ ParamOf(volumeLocks[1]) = ParamOf(volumeLocks[2])
    /\ query.relTime > 0

\* C8, as claimed: every returned entry has exactly one operation detail.
C8_EachEntryHasOneDetail ==
    pcInsp = "traversed" =>
        \A k \in DOMAIN volumeLocks : Len(volumeLocks[k].LockDetailsOnObject) = 1

\* C9: sendServiceCmd is a best-effort broadcast: whichever remote peers
\* fail, when it returns the command was sent to every remote peer and
\* posted on the local peer, and nothing is returned to the caller.
C9_BestEffortBroadcast ==
    CmdDone =>
        /\ \A i \in 1..(Len(cps) - 1) : invoked[At(cps, i).addr] = <<rpcMethod(call.cmd)>>
        /\ invoked[At(cps, 0).addr] = <<call.cmd>>
        /\ globalServiceSignalCh = <<call.cmd>>
        /\ ret = NoOutcome

\* C9 witness: one remote peer failed, another one did not, and the call
\* returned after the command was posted locally.
C9_Witness ==
    /\ CmdDone
    /\ \E i, j \in PeerIdx : PeerOutcome(i).err \in Errors /\ j > 0 /\ PeerOutcome(j).err = nil
    /\ globalServiceSignalCh # <<>>

\* C10: in both fan-out operations slot i of errs (and of allLocks) holds
\* the zero value until the call on the peer at registry position i has
\* returned, and what that call returned from then on, in whichever order
\* the calls return.
C10_SlotsFollowRegistry ==
    errs # <<>> =>
        \A i \in PeerIdx :
            /\ At(errs, i) = (IF PeerOutcome(i) = NoOutcome THEN nil ELSE PeerOutcome(i).err)
            /\ call.fn = "listPeerLocksInfo" => At(allLocks, i) = PeerOutcome(i).locks

\* C10 witness: the call on the last remote peer has returned an error
\* while the call on the first remote peer is still in flight.
C10_Witness ==
    /\ Len(cps) = 3
    /\ Len(goroutines) = 2
    /\ goroutines[1].pc = "inFlight"
    /\ goroutines[2].pc = "done"
    /\ At(errs, 2) \in Errors
    /\ At(errs, 1) = nil

\* C11: two calls of getSystemLockState with no write of the lock table
\* between them return the same total, blocked and granted counters and the
\* same per-object counters, and while getSystemLockState or listLocksInfo
\* runs the lock table stays what it was when the call took the guard.
C11_ReadersRepeatAndLeaveTable ==
    /\ pcInsp # "idle" => globalNSMutex = tableAtLock
    /\ (pcInsp = "stateRead" /\ lastLockState.valid) => countersOf(lockState) = lastLockState

\* C11 witness: getSystemLockState has read a table with a granted and a
\* blocked lock on two objects again, no writer having entered its critical
\* section since the call before returned.
C11_Witness ==
    /\ pcInsp = "stateRead"
    /\ lastLockState.valid
    /\ lockState.TotalAcquiredLocks >= 1
    /\ lockState.TotalBlockedLocks >= 1
    /\ Len(lockState.LocksInfoPerObject) >= 2

\* The goroutines that were started and have not ended.
Running == {g \in DOMAIN goroutines : goroutines[g].pc # "done"}
\* The loop of the fan-out has started a goroutine for every remote peer.
AllStarted == Len(goroutines) = Len(remotePeersOf(cps))

\* C12: in sendServiceCmd and listPeerLocksInfo every peer of the registry
\* is invoked at most once, exactly once when the call has returned; the
\* call on the local peer starts only after a goroutine was started for
\* every remote peer and all of them have ended, and the Stop/Restart
\* signal is never posted while a remote call is in flight.
C12_EachPeerOnceLocalAfterRemotes ==
    call.fn # "none" =>
        /\ \A i \in PeerIdx : Len(invoked[At(cps, i).addr]) <= 1
        /\ pcMain = "done" => \A i \in PeerIdx : Len(invoked[At(cps, i).addr]) = 1
        /\ (pcMain \in {"local", "reduce", "done"} \/ invoked[At(cps, 0).addr] # <<>>)
               => AllStarted /\ Running = {}
        /\ globalServiceSignalCh # <<>> => \A g \in DOMAIN goroutines : goroutines[g].pc # "inFlight"

\* C12 witness: the command was posted locally in a registry of three
\* peers after both remote calls had returned, the first one with an error.
C12_Witness ==
    /\ CmdDone
    /\ Len(cps) = 3
    /\ globalServiceSignalCh # <<>>
    /\ Running = {}
    /\ PeerOutcome(1).err \in Errors

\* The counters of a reported object add up.
ObjectCountersAddUp(e) == e.LocksOnObject = e.LocksAcquiredOnObject + e.TotalBlockedLocks
\* The names under which the readers of the lock table hold its guard.
InspectorsOfTable == {"listLocksInfo", "getSystemLockState"}

\* C13: with writers that change the lock table only under its guard and
\* leave total = granted + blocked when they release it, every state
\* getSystemLockState returns has TotalLocks = TotalAcquiredLocks +
\* TotalBlockedLocks, every object reported by it or by listLocksInfo has
\* LocksOnObject = LocksAcquiredOnObject + TotalBlockedLocks, and the reader
\* holds the guard from before its reads until it returns, and not after.
C13_SnapshotsConsistentUnderGuard ==
    /\ pcInsp = "stateRead" =>
           /\ lockState.TotalLocks = lockState.TotalAcquiredLocks + lockState.TotalBlockedLocks
           /\ \A k \in DOMAIN lockState.LocksInfoPerObject :
                  ObjectCountersAddUp(lockState.LocksInfoPerObject[k])
    /\ pcInsp = "traversed" => \A k \in DOMAIN volumeLocks : ObjectCountersAddUp(volumeLocks[k])
    /\ pcInsp \in {"locked", "traversed"} => lockMapMutex = "listLocksInfo"
    /\ pcInsp \in {"stateLocked", "stateRead"} => lockMapMutex = "getSystemLockState"
    /\ pcInsp = "idle" => lockMapMutex \notin InspectorsOfTable

\* C13 witness: getSystemLockState has read, under the guard, a table that
\* writers left with a granted and a blocked lock on one object, while no
\* writer is in its critical section.
C13_Witness ==
    /\ pcInsp = "stateRead"
    /\ lockMapMutex = "getSystemLockState"
    /\ pcWriter = "idle"
    /\ \E k \in DOMAIN lockState.LocksInfoPerObject :
           /\ lockState.LocksInfoPerObject[k].LocksAcquiredOnObject = 1
           /\ lockState.LocksInfoPerObject[k].TotalBlockedLocks = 1

\* The position in the endpoint list at which host h occurs first.
FirstOccurrence(h) == CHOOSE k \in DOMAIN eps :
                          /\ eps[k].Host = h
                          /\ \A j \in DOMAIN eps : eps[j].Host = h => k <= j

\* C14: makeAdminPeers creates no peer for an endpoint with an empty host,
\* the remote peers are hosts of the list in the order of their first
\* occurrence in it, and the registry has one peer more than the list has
\* distinct non-empty hosts other than the local address.
C14_RemotePeersInEndpointOrder ==
    globalAdminPeers # <<>> =>
        /\ \A k \in DOMAIN globalAdminPeers : globalAdminPeers[k].addr # EmptyHost
        /\ \A i \in 1..(Len(globalAdminPeers) - 1) : At(globalAdminPeers, i).addr \in NamedHosts
        /\ \A i, j \in 1..(Len(globalAdminPeers) - 1) :
               i < j => FirstOccurrence(At(globalAdminPeers, i).addr)
                            < FirstOccurrence(At(globalAdminPeers, j).addr)
        /\ Len(globalAdminPeers) = 1 + Cardinality(NamedHosts \ {globalMinioAddr})

\* C14 witness: the registry was built from a list that starts with an
\* endpoint without host and then names two remote hosts, the one with the
\* greater name first.
C14_Witness ==
    /\ Len(globalAdminPeers) = 3
    /\ Len(eps) = 3
    /\ eps[1].Host = EmptyHost
    /\ eps[2].Host = <<2>>
    /\ eps[3].Host = <<1>>
    /\ At(globalAdminPeers, 1).addr = <<2>>

\* C15: in a registry of the local peer alone listPeerLocksInfo returns no
\* error, neither a quorum error nor InsufficientReadQuorum, and exactly
\* the entries the local listLocksInfo returned, each as often as there.
C15_SingleNodeNeverFails ==
    (ListDone /\ Len(cps) = 1) =>
        /\ ret.err = nil
        /\ Len(ret.locks) = Len(localLocks)
        /\ \A e \in Elems(ret.locks) \cup Elems(localLocks) :
               Count(e, ret.locks) = Count(e, localLocks)

\* C15 witness: the only peer is the local one, its listLocksInfo returned
\* two entries and listPeerLocksInfo has returned.
C15_Witness ==
    /\ ListDone
    /\ Len(cps) = 1
    /\ goroutines = <<>>
    /\ Len(localLocks) = 2
    /\ ret.locks # <<>>

\* The operation details of a list of reported objects.
DetailsOf(objects) ==
    UNION {Elems(objects[k].LockDetailsOnObject) : k \in DOMAIN objects}
\* The operation details the call in progress is about to return.
ReportedDetails ==
    IF pcInsp = "traversed" THEN DetailsOf(volumeLocks)
    ELSE IF pcInsp = "stateRead" THEN DetailsOf(lockState.LocksInfoPerObject)
    ELSE {}

\* C16: all durations one call of getSystemLockState or listLocksInfo
\* reports are taken from the one time sample of the call: each is the
\* sample minus the record's since, so the durations of two records differ
\* by what their since differ, also when the clock advances meanwhile.
C16_DurationsFromOneTimeSample ==
    /\ \A a \in ReportedDetails : a.Duration = timeNow - a.Since
    /\ \A a, b \in ReportedDetails : a.Duration - b.Duration = b.Since - a.Since

\* C16 witness: getSystemLockState reports two records that started at
\* different times, and the clock has advanced since its time sample.
C16_Witness ==
    /\ pcInsp = "stateRead"
    /\ now > timeNow
    /\ \E a, b \in ReportedDetails : a.Since < b.Since /\ a.Duration > b.Duration

\* Goroutine g has ended: its remote call has returned.
Ended(g) == g \in DOMAIN goroutines /\ goroutines[g].pc = "done"
\* The operation has returned with no remote call left behind: a goroutine
\* was started for every remote peer and each of them has ended.
ReturnedAfterAllCalls == pcMain = "done" /\ AllStarted /\ Running = {}

\* C17: under fair scheduling, with remote calls that return and a local
\* step that completes, a call of sendServiceCmd or listPeerLocksInfo
\* eventually returns, and it returns only when the call on every remote
\* peer was made and has returned: none is cancelled or abandoned.
C17_FanOutTerminates == (pcMain # "idle") ~> ReturnedAfterAllCalls

\* C17 witness: listPeerLocksInfo has returned after the calls on two
\* remote peers have, one of them with an error.
C17_Witness ==
    /\ ListDone
    /\ Len(goroutines) = 2
    /\ \A g \in DOMAIN goroutines : Ended(g)
    /\ \E i \in PeerIdx : PeerOutcome(i).err \in Errors

\* The units of execution that have written slot i of errs (and allLocks).
WritersOf(i) == At(slotWriters, i)

\* C18: in sendServiceCmd and listPeerLocksInfo every slot of errs (and of
\* allLocks) is written at most once and by one unit of execution only, slot
\* i > 0 by the goroutine started for registry position i and slot 0 by the
\* caller, which writes it only after wg.Wait(), when every goroutine has
\* ended; when the errors are reduced and the lists merged, and when the
\* operation returns, every slot has been written.
C18_SlotsWrittenOnceNoRace ==
    slotWriters # <<>> =>
        /\ \A i \in PeerIdx :
               /\ Len(WritersOf(i)) <= 1
               /\ \A k \in DOMAIN WritersOf(i) :
                      WritersOf(i)[k] = (IF i = 0 THEN mainUnit ELSE i)
        /\ WritersOf(0) # <<>> => AllStarted /\ Running = {}
        /\ pcMain \in {"reduce", "done"} => \A i \in PeerIdx : Len(WritersOf(i)) = 1

\* C18 witness: in a registry of three peers the errors are about to be
\* reduced, each slot written by its own unit, one remote slot with an error.
C18_Witness ==
    /\ call.fn = "listPeerLocksInfo"
    /\ pcMain = "reduce"
    /\ slotWriters = <<<<mainUnit>>, <<1>>, <<2>>>>
    /\ At(errs, 2) \in Errors
    /\ At(allLocks, 1) # <<>>

\* removeUploadID has returned.
Removed == upCall.fn = "removeUploadID"
\* The upload IDs the file held before the call, without the removed one.
RemainingIDs == SelectSeq(idsOf(upCall.before.Uploads), LAMBDA id : id # upCall.uploadID)
\* The file holds exactly the remaining upload IDs.
HoldsRemaining == uploadsJSON.state = "json" /\ idsOf(uploadsJSON.Uploads) = RemainingIDs

====
